---- MODULE Spec2Model ----
(***************************************************************************)
(* fibonacci-musings.ipynb: the memoized generalized Fibonacci evaluator   *)
(* fib(n, f0, f1) and the partial limit fib_lim(n, f0, f1).                *)
(*                                                                         *)
(* Numbers are Python numbers: an int k, a float of integral value k, or   *)
(* the float -0.0.  Every value the bounded model computes is an integer   *)
(* below 2^31, so int and float addition are both exact here; what differs *)
(* between the two is the type of the result and the sign of a zero.  A    *)
(* true division yields a float; it is kept as the exact quotient in       *)
(* lowest terms (the rounding of the quotient to a double, a relative      *)
(* error below 2^-52, is not modelled).                                    *)
(***************************************************************************)
EXTENDS Integers, Sequences, FiniteSets, TLC

VARIABLES op, n, f0, f1, pc, arg, i, prev, curr, vals, result, cache, calls

vars == <<op, n, f0, f1, pc, arg, i, prev, curr, vals, result, cache, calls>>

---------------------------------------------------------------------------
(* Bounds of the model *)

MaxN == 5
MaxNeg == 2
MaxSeed == 2
MaxCalls == 2
MaxCacheN == 1
MaxScalar == 2

---------------------------------------------------------------------------
(* Python numbers *)

PyInt(k) == [ty |-> "int", v |-> k, nz |-> FALSE]
PyFloat(k) == [ty |-> "float", v |-> k, nz |-> FALSE]
NegZero == [ty |-> "float", v |-> 0, nz |-> TRUE]

Abs(k) == IF k < 0 THEN -k ELSE k

RECURSIVE Gcd(_, _)
Gcd(a, b) == IF b = 0 THEN a ELSE Gcd(b, a % b)

(* a + b: int + int is an int; otherwise the int operand is converted and  *)
(* the sum is a float.  A float sum of zero is -0.0 only when both         *)
(* operands are -0.0 (round-to-nearest).                                   *)
PyAdd(a, b) ==
    IF a.ty = "int" /\ b.ty = "int"
    THEN PyInt(a.v + b.v)
    ELSE [ty |-> "float", v |-> a.v + b.v, nz |-> a.nz /\ b.nz]

(* a == b, the comparison a dict lookup uses next to the hash: by numeric  *)
(* value, so 1 == 1.0 and 0.0 == -0.0 (and their hashes agree).            *)
PyEq(a, b) == a.v = b.v

Return(x) == [kind |-> "return", val |-> x]
Raise(e) == [kind |-> "raise", exc |-> e]
NoResult == [kind |-> "none"]

IsNegative(a) == a.v < 0 \/ (a.v = 0 /\ a.nz)

(* a / b: ZeroDivisionError when b is 0, 0.0 or -0.0; otherwise the float  *)
(* quotient, in lowest terms with a positive denominator.                  *)
PyTrueDivDefault(a, b) ==
    IF b.v = 0
    THEN Return([ty |-> "float", num |-> 0, den |-> 1, nz |-> FALSE])
    ELSE LET g == Gcd(Abs(a.v), Abs(b.v))
             s == IF IsNegative(a) = IsNegative(b) THEN 1 ELSE -1
         IN  Return([ty |-> "float",
                     num |-> s * (Abs(a.v) \div g),
                     den |-> Abs(b.v) \div g,
                     nz |-> a.v = 0 /\ s = -1])

PyTrueDiv(a, b) ==
    IF b.v = 0
    THEN Raise("ZeroDivisionError")
    ELSE LET g == Gcd(Abs(a.v), Abs(b.v))
             s == IF IsNegative(a) = IsNegative(b) THEN 1 ELSE -1
         IN  Return([ty |-> "float",
                     num |-> s * (Abs(a.v) \div g),
                     den |-> Abs(b.v) \div g,
                     nz |-> a.v = 0 /\ s = -1])

---------------------------------------------------------------------------
(* fib: the body of the function *)

(* len(range(m)): the number of iterations of `for _ in range(m)` *)
RangeLenAbs(m) == Abs(m)

RangeLen(m) == IF m > 0 THEN m ELSE 0

(* prev, curr = f0, f1 *)
FibInitClassic(a, b) == [prev |-> a, curr |-> PyInt(1)]

FibInit(a, b) == [prev |-> a, curr |-> b]

(* prev, curr = curr, prev + curr (the right side is evaluated first) *)
FibStepSwapped(s) == [prev |-> PyAdd(s.prev, s.curr), curr |-> s.curr]

FibStep(s) == [prev |-> s.curr, curr |-> PyAdd(s.prev, s.curr)]

RECURSIVE FibLoop(_, _)
FibLoop(k, s) == IF k = 0 THEN s ELSE FibLoop(k - 1, FibStep(s))

(* the undecorated function: what a call computes on a cache miss *)
fib(m, a, b) == FibLoop(RangeLen(m), FibInit(a, b)).prev

(* fib_lim computed without a cache *)
fib_lim(m, a, b) == PyTrueDiv(fib(m, a, b), fib(m - 1, a, b))

---------------------------------------------------------------------------
(* lru_cache(maxsize=None): a dict from the argument tuples to results *)

Key(m, a, b) == <<m, a, b>>

(* two argument tuples are the same dict key when their items compare     *)
(* equal (typed=False: the types of the arguments are not part of the key) *)
KeyEq(k1, k2) == k1[1] = k2[1] /\ PyEq(k1[2], k2[2]) /\ PyEq(k1[3], k2[3])

Hits(k) == {e \in cache : KeyEq(e.key, k)}

---------------------------------------------------------------------------
(* The calls the model makes *)

Ops == {"fib", "fib_lim"}

SeedValues == -MaxSeed .. MaxSeed
Seeds == {PyInt(k) : k \in SeedValues} \cup {PyFloat(k) : k \in SeedValues}
             \cup {NegZero}
Indexes == -MaxNeg .. MaxN

(* fib_lim(30, ...) as the notebook's exceptional-seed sweep calls it, on  *)
(* the classic seeds and on the tabulated pair (4, -2.47214) scaled by     *)
(* 10^5; and the integer pair (F_30, -F_29) next to the exceptional axis.  *)
NotebookCalls ==
    { <<30, PyInt(1), PyInt(1)>>,
      <<30, PyInt(400000), PyInt(-247214)>>,
      <<10, PyInt(832040), PyInt(-514229)>> }

CacheSeeds == {PyInt(0), PyFloat(0), NegZero, PyInt(1), PyFloat(1)}
CacheIndexes == 0 .. MaxCacheN

Init ==
    /\ \/ /\ op \in Ops
          /\ n \in Indexes
          /\ f0 \in Seeds
          /\ f1 \in Seeds
       \/ /\ op = "fib_lim"
          /\ \E c \in NotebookCalls : n = c[1] /\ f0 = c[2] /\ f1 = c[3]
    /\ pc = "call"
    /\ arg = n
    /\ i = 0
    /\ prev = PyInt(0)
    /\ curr = PyInt(0)
    /\ vals = <<>>
    /\ result = NoResult
    /\ cache = {}
    /\ calls = 0

InitCache ==
    /\ op = "fib"
    /\ n = 0
    /\ f0 = PyInt(0)
    /\ f1 = PyInt(0)
    /\ pc = "idle"
    /\ arg = 0
    /\ i = 0
    /\ prev = PyInt(0)
    /\ curr = PyInt(0)
    /\ vals = <<>>
    /\ result = NoResult
    /\ cache = {}
    /\ calls = 0

(* the caller (a notebook cell) makes its next call *)
Request ==
    /\ pc \in {"idle", "done"}
    /\ calls < MaxCalls
    /\ \E o \in Ops, m \in CacheIndexes, a \in CacheSeeds, b \in CacheSeeds :
          /\ op' = o
          /\ n' = m
          /\ f0' = a
          /\ f1' = b
          /\ arg' = m
    /\ pc' = "call"
    /\ vals' = <<>>
    /\ result' = NoResult
    /\ UNCHANGED <<i, prev, curr, cache, calls>>

(* what follows the return of fib with value x: the caller of fib gets    *)
(* it; fib_lim evaluates fib(n, ...) first, then fib(n - 1, ...), then /   *)
AfterReturn(x) ==
    LET vs == Append(vals, x) IN
    /\ vals' = vs
    /\ IF op = "fib"
       THEN /\ pc' = "done"
            /\ result' = Return(x)
            /\ calls' = calls + 1
            /\ arg' = arg
       ELSE IF Len(vs) = 1
       THEN /\ pc' = "call"
            /\ arg' = n - 1
            /\ UNCHANGED <<result, calls>>
       ELSE /\ pc' = "div"
            /\ UNCHANGED <<result, calls, arg>>

(* the lru_cache wrapper is entered: a hit returns the stored result, a   *)
(* miss runs the body *)
FibCall ==
    /\ pc = "call"
    /\ LET k == Key(arg, f0, f1) IN
       IF Hits(k) # {}
       THEN /\ AfterReturn((CHOOSE e \in Hits(k) : TRUE).val)
            /\ UNCHANGED <<i, prev, curr, cache>>
       ELSE /\ pc' = "loop"
            /\ i' = 0
            /\ prev' = FibInit(f0, f1).prev
            /\ curr' = FibInit(f0, f1).curr
            /\ UNCHANGED <<arg, vals, result, cache, calls>>
    /\ UNCHANGED <<op, n, f0, f1>>

(* one iteration of the for loop *)
FibIter ==
    /\ pc = "loop"
    /\ i < RangeLen(arg)
    /\ LET s == FibStep([prev |-> prev, curr |-> curr]) IN
          /\ prev' = s.prev
          /\ curr' = s.curr
    /\ i' = i + 1
    /\ UNCHANGED <<op, n, f0, f1, pc, arg, vals, result, cache, calls>>

(* range(arg) is exhausted: return prev; the wrapper stores it *)
FibReturn ==
    /\ pc = "loop"
    /\ i >= RangeLen(arg)
    /\ cache' = cache \cup {[key |-> Key(arg, f0, f1), val |-> prev]}
    /\ AfterReturn(prev)
    /\ UNCHANGED <<op, n, f0, f1, i, prev, curr>>

(* fib_lim: the division of the two values *)
Divide ==
    /\ pc = "div"
    /\ result' = PyTrueDiv(vals[1], vals[2])
    /\ pc' = "done"
    /\ calls' = calls + 1
    /\ UNCHANGED <<op, n, f0, f1, arg, i, prev, curr, vals, cache>>

Next == FibCall \/ FibIter \/ FibReturn \/ Divide

NextCache == Request \/ FibCall \/ FibIter \/ FibReturn \/ Divide

(* one call, made on an empty cache *)
Spec == Init /\ [][Next]_vars

(* a sequence of calls sharing the cache *)
SpecCache == InitCache /\ [][NextCache]_vars

---------------------------------------------------------------------------
(* The sequence x_0 = a, x_1 = b, x_k = x_(k-2) + x_(k-1), term by term *)

RECURSIVE TermSeq(_, _, _)
TermSeq(k, a, b) ==
    IF k = 0 THEN <<a>>
    ELSE IF k = 1 THEN <<a, b>>
    ELSE LET s == TermSeq(k - 1, a, b) IN Append(s, PyAdd(s[k - 1], s[k]))

X(k, a, b) == TermSeq(k, a, b)[k + 1]

Done(o) == pc = "done" /\ op = o

(* C1: for n >= 0, after k iterations of the loop prev = x_k and           *)
(* curr = x_(k+1), the loop stops after exactly n iterations and fib       *)
(* returns x_n; so for n >= 2, fib(n) = fib(n-1) + fib(n-2).               *)
C1_LoopComputesRecurrence ==
    /\ (pc = "loop" /\ arg >= 0) =>
          /\ i <= arg
          /\ prev = X(i, f0, f1)
          /\ curr = X(i + 1, f0, f1)
    /\ (Done("fib") /\ n >= 0) =>
          /\ i = n
          /\ result = Return(X(n, f0, f1))
    /\ (Done("fib") /\ n >= 2) =>
          result = Return(PyAdd(fib(n - 1, f0, f1), fib(n - 2, f0, f1)))

C1_Witness ==
    /\ Done("fib") /\ n >= 3 /\ i = n
    /\ f0.v # 0 /\ f1.v # 0 /\ f0.v # f1.v
    /\ result.kind = "return"

(* C2: fib(0, f0, f1) is f0 itself, returned without an addition (no loop  *)
(* iteration ran), and fib(1, f0, f1) is f1 itself.                        *)
C2_BaseCases ==
    /\ (Done("fib") /\ n = 0) => (result = Return(f0) /\ i = 0)
    /\ (Done("fib") /\ n = 1) => result = Return(f1)

C2_Witness ==
    /\ Done("fib") /\ n = 1 /\ f0 = NegZero /\ f1 = PyFloat(-1)
    /\ result = Return(PyFloat(-1))

(* q is the float a / b exactly: q.num / q.den = a / b with q.den > 0,     *)
(* compared by exact division so that no product is formed *)
IsQuotient(q, a, b) ==
    /\ q.ty = "float"
    /\ q.den > 0
    /\ Abs(b) % q.den = 0
    /\ LET g == Abs(b) \div q.den IN
          /\ Abs(a) % g = 0
          /\ Abs(q.num) = Abs(a) \div g
          /\ (q.num < 0) = ((a < 0) # (b < 0) /\ a # 0)

ZeroDivision == Raise("ZeroDivisionError")

(* C3: for n >= 1, fib_lim(n, f0, f1) returns x_n / x_(n-1) when           *)
(* x_(n-1) # 0, and ends in ZeroDivisionError, returning nothing, when     *)
(* x_(n-1) is exactly zero.                                                *)
C3_RatioOrDivisionByZero ==
    (Done("fib_lim") /\ n >= 1) =>
        LET a == X(n, f0, f1)
            b == X(n - 1, f0, f1)
        IN  IF b.v = 0
            THEN result = ZeroDivision
            ELSE /\ result.kind = "return"
                 /\ IsQuotient(result.val, a.v, b.v)

C3_Witness ==
    /\ Done("fib_lim") /\ n = 1 /\ f0 = PyInt(0) /\ f1 = PyInt(2)
    /\ result = ZeroDivision

(* C4 as claimed: a call with n < 0 (fib) or n < 1 (fib_lim) fails with    *)
(* InvalidArgument and returns no value.                                   *)
C4_InvalidArgumentRaised ==
    (pc = "done" /\ ((op = "fib" /\ n < 0) \/ (op = "fib_lim" /\ n < 1))) =>
        result = Raise("InvalidArgument")

(* C4 as amended: no call fails with InvalidArgument; fib with n < 0 runs  *)
(* no iteration and returns f0, as fib(0, f0, f1) does; fib_lim with n < 1 *)
(* returns f0 / f0 = 1.0 when f0 # 0 and ZeroDivisionError when f0 = 0.    *)
C4_OutOfDomainBehaviour ==
    /\ result.kind = "raise" => result = ZeroDivision
    /\ (Done("fib") /\ n < 0) => (result = Return(f0) /\ i = 0)
    /\ (Done("fib_lim") /\ n < 1) =>
          IF f0.v = 0
          THEN result = ZeroDivision
          ELSE result =
                 Return([ty |-> "float", num |-> 1, den |-> 1, nz |-> FALSE])

C4_Witness ==
    /\ Done("fib") /\ n = -1 /\ f0 = PyInt(0) /\ f1 = PyInt(1)
    /\ result = Return(PyInt(0))

(* the classic sequence F_0 = 0, F_1 = 1 *)
F(k) == X(k, PyInt(0), PyInt(1)).v

(* f1^2 = f0*f1 + f0^2 with f0*f1 <= 0: the pair is on the axis            *)
(* f1 = -f0/phi *)
OnAxis(a, b) == b * b = a * b + a * a /\ a * b <= 0

(* (a, b) = k * (F_(m-1), -F_(m-2)) for an integer k, m >= 2; this is      *)
(* a * F_(m-2) + b * F_(m-1) = 0, consecutive F being coprime *)
VanishesAt(m, a, b) ==
    LET A == F(m - 1)
        B == F(m - 2)
    IN  /\ Abs(a) % A = 0
        /\ LET k == Abs(a) \div A IN
              b = IF a < 0 THEN k * B ELSE -(k * B)

(* C5 as claimed: for n >= 1 the denominator x_(n-1) is zero only for a    *)
(* seed pair on the axis f1 = -f0/phi or for f0 = 0 with n = 1, so no      *)
(* other pair with f0 # 0 makes fib_lim fail with a division by zero.      *)
C5_ZeroOnlyOnAxis ==
    (Done("fib_lim") /\ n >= 1 /\ result = ZeroDivision) =>
        (OnAxis(f0.v, f1.v) \/ (f0.v = 0 /\ n = 1))

(* C5 as amended: for integer-valued seeds and n >= 1, fib_lim fails with  *)
(* a division by zero exactly when n = 1 and f0 = 0, or n >= 2 and         *)
(* f0 * F_(n-2) + f1 * F_(n-1) = 0; it never fails when f0 and f1 are      *)
(* both positive or both negative.                                         *)
C5_ZeroDenominatorCases ==
    (Done("fib_lim") /\ n >= 1) =>
        /\ (result = ZeroDivision) =
              (IF n = 1 THEN f0.v = 0 ELSE VanishesAt(n, f0.v, f1.v))
        /\ ((f0.v > 0 /\ f1.v > 0) \/ (f0.v < 0 /\ f1.v < 0)) =>
              result.kind = "return"

C5_Witness ==
    /\ Done("fib_lim") /\ n = 3 /\ f0 = PyInt(1) /\ f1 = PyInt(-1)
    /\ result = ZeroDivision

Scalars == -MaxScalar .. MaxScalar

IntSeeds(a, b) == a.ty = "int" /\ b.ty = "int"

(* C6: linearity over integer seeds and scalars: whenever                  *)
(* (f0, f1) = alpha * (a0, a1) + beta * (b0, b1), fib(n, f0, f1) =         *)
(* alpha * fib(n, a0, a1) + beta * fib(n, b0, b1), for all n >= 0.         *)
C6_Linearity ==
    (Done("fib") /\ n >= 0 /\ IntSeeds(f0, f1)) =>
        \A alpha \in Scalars, beta \in Scalars,
           a0 \in SeedValues, b0 \in SeedValues :
            (f0.v = alpha * a0 + beta * b0) =>
                \A a1 \in SeedValues, b1 \in SeedValues :
                    (f1.v = alpha * a1 + beta * b1) =>
                        result = Return(PyInt(
                            alpha * fib(n, PyInt(a0), PyInt(a1)).v
                              + beta * fib(n, PyInt(b0), PyInt(b1)).v))

C6_Witness ==
    /\ Done("fib") /\ n = 4 /\ f0 = PyInt(1) /\ f1 = PyInt(-1)
    /\ result = Return(PyInt(
           2 * fib(4, PyInt(1), PyInt(0)).v
             + (-1) * fib(4, PyInt(1), PyInt(1)).v))

RECURSIVE DecShift(_, _, _)
DecShift(r, d, k) ==
    IF k = 0 THEN <<0, r>>
    ELSE LET p == DecShift(r, d, k - 1) IN
         <<p[1] * 10 + (p[2] * 10) \div d, (p[2] * 10) % d>>

(* lo < |q| * 10^6 < hi for a quotient q, with lo and hi integers *)
MicroBetween(q, lo, hi) ==
    LET m == Abs(q.num)
        ip == m \div q.den
        p == DecShift(m % q.den, q.den, 6)
        fl == ip * 1000000 + p[1]
    IN  /\ ip < 1000
        /\ (fl > lo \/ (fl = lo /\ p[2] > 0))
        /\ fl < hi

(* lo < (q - ip) * 10^10 < hi for a quotient q >= 0 of integer part ip,    *)
(* lo and hi given by their first and last five digits *)
FractionBetween(q, ip, lo, hi) ==
    LET p == DecShift(q.num % q.den, q.den, 5)
        r == DecShift(p[2], q.den, 5)
    IN  /\ q.num >= 0
        /\ q.num \div q.den = ip
        /\ p[1] = lo[1] /\ p[1] = hi[1]
        /\ (r[1] > lo[2] \/ (r[1] = lo[2] /\ r[2] > 0))
        /\ r[1] < hi[2]

IsCall(o, m, a, b) == Done(o) /\ n = m /\ f0 = PyInt(a) /\ f1 = PyInt(b)

C9_GoldenRatio ==
    IsCall("fib_lim", 30, 1, 1) =>
        /\ result.kind = "return"
        /\ IsQuotient(result.val, X(30, f0, f1).v, X(29, f0, f1).v)
        /\ FractionBetween(result.val, 1, <<61803, 29887>>, <<61803, 49887>>)

C9_Witness ==
    /\ IsCall("fib_lim", 30, 1, 1)
    /\ result.kind = "return"
    /\ result.val.num = 1346269 /\ result.val.den = 832040

(* C7 as claimed: every entry of the cache holds what the uncached         *)
(* computation yields for its key, and every call returns exactly what it  *)
(* would return on an empty cache, whatever calls came before it.          *)
C7_HistoryIndependent ==
    /\ \A e \in cache : e.val = fib(e.key[1], e.key[2], e.key[3])
    /\ Done("fib") => result = Return(fib(n, f0, f1))
    /\ Done("fib_lim") => result = fib_lim(n, f0, f1)

====
